---------------------------- MODULE Spec2Model ----------------------------
(***************************************************************************)
(* A model of main.py: the Fog readability scorer, the HTML-to-text        *)
(* conversion, the five issuer extractors and the driver that fills the    *)
(* result sheet.                                                           *)
(*                                                                         *)
(* Text is a sequence of one-character strings, so that the regular        *)
(* expressions of the source are computed character by character the way   *)
(* Python's re module computes them (leftmost match, greedy repetition     *)
(* with backtracking, non-overlapping findall).  What lxml, datetime and    *)
(* openpyxl do is modelled at the calls main.py makes of them.             *)
(***************************************************************************)
EXTENDS Integers, Sequences, FiniteSets, TLC

VARIABLES
    pc,        \* where the modelled call or the driver stands
    arg,       \* the argument of the function under study
    ret,       \* what the call returned or raised
    listing,   \* os.listdir of the five issuer directories, with the files' contents
    dir,       \* the issuer directory the driver is in (1..5)
    idx,       \* how many files of that directory the driver has handled
    row,       \* main's row
    sheet,     \* the cells written so far: <<row, column>> -> value
    saved      \* whether profile.save has run

vars == <<pc, arg, ret, listing, dir, idx, row, sheet, saved>>

None == "None"

\* ------------------------------------------------------------- bounds

MaxWordLen == 4
MaxTextLen == 4
MaxChildren == 2
MaxTitleTokens == 2
MaxElements == 2
MaxSegments == 3
MaxFiles == 3

\* ----------------------------------------------------- character classes

lowercase == <<"a","b","c","d","e","f","g","h","i","j","k","l","m",
               "n","o","p","q","r","s","t","u","v","w","x","y","z">>

uppercase == <<"A","B","C","D","E","F","G","H","I","J","K","L","M",
               "N","O","P","Q","R","S","T","U","V","W","X","Y","Z">>

Range(s) == {s[i] : i \in DOMAIN s}

Lower == Range(lowercase)

Upper == Range(uppercase)

Letter == Lower \cup Upper

Digit == {"0","1","2","3","4","5","6","7","8","9"}

\* \w of Python's re, on ASCII text
WordChar == Letter \cup Digit \cup {"_"}

\* what str.strip and str.split take for white space
Whitespace == {" ", "\n", "\t", "\r"}

\* the right single quotation mark U+2019 (one character, not the ASCII apostrophe)
RSQ == "U+2019"

ToLowerChar(c) ==
    IF c \in Upper THEN lowercase[CHOOSE i \in DOMAIN uppercase : uppercase[i] = c] ELSE c

ToUpperChar(c) ==
    IF c \in Lower THEN uppercase[CHOOSE i \in DOMAIN lowercase : lowercase[i] = c] ELSE c

ToLower(w) == [i \in DOMAIN w |-> ToLowerChar(w[i])]

ToUpper(w) == [i \in DOMAIN w |-> ToUpperChar(w[i])]

\* All sequences over S of length at most n
SeqUpTo(S, n) == UNION {[1..k -> S] : k \in 0..n}

\* \b at position i of t: between t[i-1] and t[i], exactly one is a \w character
IsWordBoundary(t, i) ==
    ((i > 1) /\ (t[i-1] \in WordChar)) # ((i <= Len(t)) /\ (t[i] \in WordChar))

\* ------------------------------------------------------------------ Fog

\* A case-sensitive reading of the vowel class (the flag re.IGNORECASE dropped)
InVowelClassCaseSensitive(c) == c \in {"a","e","u","o","i","y"}

\* [aeuoiy] under re.IGNORECASE
InVowelClass(c) == ToLowerChar(c) \in {"a","e","u","o","i","y"}

\* $ without re.MULTILINE: the end of the string, or just before a final newline
AtDollar(w, k) == (k = Len(w) + 1) \/ (k = Len(w) /\ w[k] = "\n")

\* (?!e$)[aeouiy] at position k, under re.IGNORECASE
SyllableVowelAt(w, k) ==
    /\ k <= Len(w)
    /\ ~(ToLowerChar(w[k]) = "e" /\ AtDollar(w, k + 1))
    /\ InVowelClass(w[k])

\* re_syllables tried at position i: the position of the match's last
\* character, 0 when it does not match there.  The alternative ^ is tried
\* before [^aeuoiy].
re_syllables_match(w, i) ==
    IF i = 1 /\ SyllableVowelAt(w, 1) THEN 1
    ELSE IF i <= Len(w) /\ ~InVowelClass(w[i]) /\ SyllableVowelAt(w, i + 1) THEN i + 1
    ELSE 0

RECURSIVE re_syllables_findall(_, _)
re_syllables_findall(w, i) ==
    IF i > Len(w) THEN 0
    ELSE LET e == re_syllables_match(w, i)
         IN IF e = 0 THEN re_syllables_findall(w, i + 1)
            ELSE 1 + re_syllables_findall(w, e + 1)

count_syllables(word) == re_syllables_findall(word, 1)

is_complex_word(word) == count_syllables(word) >= 3

\* [a-zA-Z'\-]
InWordClass(c) == c \in Letter \cup {"'", "-"}

RECURSIVE ClassRunEnd(_, _)
\* the last position of the longest run of [a-zA-Z'\-] that starts at i
ClassRunEnd(t, i) ==
    IF i < Len(t) /\ InWordClass(t[i + 1]) THEN ClassRunEnd(t, i + 1) ELSE i

\* \b[a-zA-Z'\-]+\b tried at position i: the greedy run, given back one
\* character at a time until a \b follows; 0 when there is no match at i
WordMatchEnd(t, i) ==
    IF ~(IsWordBoundary(t, i) /\ InWordClass(t[i])) THEN 0
    ELSE LET ends == {k \in i..ClassRunEnd(t, i) : IsWordBoundary(t, k + 1)}
         IN IF ends = {} THEN 0 ELSE CHOOSE k \in ends : \A j \in ends : j <= k

RECURSIVE WordSpans(_, _)
WordSpans(t, i) ==
    IF i > Len(t) THEN <<>>
    ELSE LET e == WordMatchEnd(t, i)
         IN IF e = 0 THEN WordSpans(t, i + 1)
            ELSE <<(<<i, e>>)>> \o WordSpans(t, e + 1)

identify_words(input_text) ==
    LET spans == WordSpans(input_text, 1)
    IN [k \in DOMAIN spans |-> SubSeq(input_text, spans[k][1], spans[k][2])]

count_words(input_text) == Len(identify_words(input_text))

Terminator == {".", "!", "?"}

RECURSIVE SentenceEndNoDecimal(_, _, _)
\* The sentence pattern with the alternative \.\d left out
SentenceEndNoDecimal(t, i, lastDot) ==
    IF i > Len(t) THEN 0
    ELSE IF t[i] \in Terminator THEN i
    ELSE SentenceEndNoDecimal(t, i + 1, lastDot)

RECURSIVE SentenceEnd(_, _, _)
\* (?:[^\.!?]|\.\d)*[\.!?] from position i on.  The greedy repetition takes
\* every character that is no terminator, and a "." together with the digit
\* after it; it stops at a terminator it cannot take, which then ends the
\* match, or at the end of the text, and there the repetition is given back
\* step by step until a step begins with a terminator: the "." of the last
\* "." digit pair (lastDot), 0 when there is none and nothing matches.
SentenceEnd(t, i, lastDot) ==
    IF i > Len(t) THEN lastDot
    ELSE IF t[i] \notin Terminator THEN SentenceEnd(t, i + 1, lastDot)
    ELSE IF t[i] = "." /\ i < Len(t) /\ t[i + 1] \in Digit THEN SentenceEnd(t, i + 2, i)
    ELSE i

\* \b[A-Z](?:[^\.!?]|\.\d)*[\.!?] tried at position i
SentenceMatchEnd(t, i) ==
    IF IsWordBoundary(t, i) /\ t[i] \in Upper THEN SentenceEnd(t, i + 1, 0) ELSE 0

RECURSIVE SentenceSpans(_, _)
SentenceSpans(t, i) ==
    IF i > Len(t) THEN <<>>
    ELSE LET e == SentenceMatchEnd(t, i)
         IN IF e = 0 THEN SentenceSpans(t, i + 1)
            ELSE <<(<<i, e>>)>> \o SentenceSpans(t, e + 1)

identify_sentences(input_text) ==
    LET spans == SentenceSpans(input_text, 1)
    IN [k \in DOMAIN spans |-> SubSeq(input_text, spans[k][1], spans[k][2])]

count_sentences(input_text) == Len(identify_sentences(input_text))

\* Python's float arithmetic, as exact fractions <<numerator, denominator>>
\* in lowest terms; a division by zero raises ZeroDivisionError.
ZeroDivisionError == [raise |-> "ZeroDivisionError"]

RECURSIVE Gcd(_, _)
Gcd(a, b) == IF b = 0 THEN a ELSE Gcd(b, a % b)

Frac(n, d) == LET g == Gcd(n, d) IN <<n \div g, d \div g>>

FloatDiv(a, b) == IF b = 0 THEN ZeroDivisionError ELSE Frac(a, b)

FloatAdd(x, y) == Frac(x[1] * y[2] + y[1] * x[2], x[2] * y[2])

SelectSeqLen(s, Test(_)) == Cardinality({k \in DOMAIN s : Test(s[k])})

\* the hundredfold share of complex words taken per sentence instead of per word
calculate_fog_per_sentence(text) ==
    LET sentences == identify_sentences(text)
        words == identify_words(text)
        complex_words == SelectSeqLen(words, is_complex_word)
        a == FloatDiv(Len(words), Len(sentences))
        b == FloatDiv(100 * complex_words, Len(sentences))
    IN IF a = ZeroDivisionError THEN a
       ELSE LET s == FloatAdd(a, b) IN Frac(4 * s[1], 10 * s[2])

\* 0.4*(len(words)/len(sentences) + 100*len(complex_words)/len(words)),
\* the left division evaluated first
calculate_fog(text) ==
    LET sentences == identify_sentences(text)
        words == identify_words(text)
        complex_words == SelectSeqLen(words, is_complex_word)
        a == FloatDiv(Len(words), Len(sentences))
        b == FloatDiv(100 * complex_words, Len(words))
    IN IF a = ZeroDivisionError THEN a
       ELSE IF b = ZeroDivisionError THEN b
       ELSE LET s == FloatAdd(a, b) IN Frac(4 * s[1], 10 * s[2])

\* ------------------------------------------------------------ BaseMDNA

\* An optional value: <<>> is Python's None, <<x>> is the value x.
Absent == <<>>

Some(x) == <<x>>

\* An element of a parsed document: its tag, its text (text before the first
\* child) and its tail (text after its end tag) as character sequences, and
\* its children.  lxml gives None, never "", to an element without text; the
\* empty sequence stands for that None.
Element(tag, text, children, tail) ==
    [tag |-> tag, text |-> text, children |-> children, tail |-> tail]

RECURSIVE Concat(_)
\* the concatenation of a sequence of sequences
Concat(ss) == IF ss = <<>> THEN <<>> ELSE Head(ss) \o Concat(Tail(ss))

RECURSIVE tostring(_)
\* etree.tostring(element): the element's markup, its tail included
tostring(e) ==
    <<"<">> \o e.tag \o <<">">> \o e.text
        \o Concat([k \in DOMAIN e.children |-> tostring(e.children[k])])
        \o <<"<", "/">> \o e.tag \o <<">">> \o e.tail

\* HTML handed from extract_mdna to get_text_from_html: the markup, and the
\* tree lxml.html.fromstring builds from it (lxml's parser is not part of
\* main.py; its result comes with the input).
Html(markup, dom) == [markup |-> markup, dom |-> dom]

fromstring(html) == html.dom

NewlineTags ==
    {<<"t","r">>, <<"t","h">>, <<"t","d">>, <<"a">>, <<"p">>, <<"d","i","v">>,
     <<"b","r">>, <<"h","1">>, <<"h","2">>, <<"h","3">>, <<"h","4">>, <<"h","5">>}

\* element.text = element.text + "\n" if element.text else "\n"
WithNewline(e) == [e EXCEPT !.text = @ \o <<"\n">>]

\* for tag in [...]: for element in doc.findall(tag): ...   doc.findall(tag)
\* yields the children of doc with that tag, not doc and not deeper elements
findall_children(doc, tags) ==
    [doc EXCEPT !.children =
        [k \in DOMAIN @ |-> IF @[k].tag \in tags THEN WithNewline(@[k]) ELSE @[k]]]

RECURSIVE text_content(_)
\* doc.text_content(): every text of the tree in document order, the tails
\* of the elements below doc included, doc's own tail not
text_content(e) ==
    e.text \o Concat([k \in DOMAIN e.children |->
                         text_content(e.children[k]) \o e.children[k].tail])

\* str.strip()
strip(t) ==
    LET keep == {i \in DOMAIN t : t[i] \notin Whitespace}
    IN IF keep = {} THEN <<>>
       ELSE SubSeq(t, CHOOSE i \in keep : \A j \in keep : i <= j,
                      CHOOSE i \in keep : \A j \in keep : j <= i)

\* The tree after the loop of get_text_from_html
get_text_from_html_doc(html) == findall_children(fromstring(html), NewlineTags)

get_text_from_html(html) == strip(text_content(get_text_from_html_doc(html)))

\* What a call ends with.  extract_mdna returns the tuple (fragment, year)
\* (value = "tuple"), or None by a bare return (value = "None"), or raises;
\* get_mdna_text returns the tuple (text, year), first = the text.  calls
\* lists the methods the call went through.
ReturnTuple(first, year, calls) ==
    [raise |-> "", value |-> "tuple", first |-> first, year |-> year, calls |-> calls]

ReturnNone(calls) ==
    [raise |-> "", value |-> "None", first |-> Absent, year |-> Absent, calls |-> calls]

Raise(exc, calls) ==
    [raise |-> exc, value |-> "", first |-> Absent, year |-> Absent, calls |-> calls]

\* BaseMDNA.get_mdna_text, given what cls.extract_mdna did
get_mdna_text(extracted) ==
    IF extracted.raise # "" THEN extracted
    ELSE IF extracted.value = "None" THEN Raise("TypeError", extracted.calls)
    ELSE IF extracted.first = Absent THEN ReturnTuple(Absent, extracted.year, extracted.calls)
    ELSE ReturnTuple(Some(get_text_from_html(extracted.first[1])), extracted.year,
                     Append(extracted.calls, "get_text_from_html"))

\* ------------------------------------------------- the issuers' extractors

\* A filing as the extractors see it.
\*   title      //div[@class="ModuleFilingTitle"]/span: kind "absent" when
\*              the xpath finds nothing, "notext" when the first span's text
\*              is None, else "text" with tokens = text.split()
\*   cells      //td[@class="text"], in document order
\*   summary    //div[@id="divSummary of Significant Accounting Policies"]/div
\*   containers //div[@class="reportContainer subcontainerNotSelected"]
\*   raw        the file's text
\*   dom        the tree lxml builds from the span the Google pattern matches
\* A token of the title is three numbers written mm/dd/yyyy (kind "date",
\* whatever the numbers) or anything else (kind "word").
DateToken(m, d, y) == [kind |-> "date", m |-> m, d |-> d, y |-> y]

WordToken == [kind |-> "word", m |-> 0, d |-> 0, y |-> 0]

NoTitle == [kind |-> "absent", tokens |-> <<>>]

NoTitleText == [kind |-> "notext", tokens |-> <<>>]

TitleText(tokens) == [kind |-> "text", tokens |-> tokens]

IsLeapYear(y) == (y % 4 = 0 /\ y % 100 # 0) \/ y % 400 = 0

DaysInMonth(m, y) ==
    IF m = 2 THEN (IF IsLeapYear(y) THEN 29 ELSE 28)
    ELSE IF m \in {4, 6, 9, 11} THEN 30 ELSE 31

\* datetime.strptime(date_str, '%m/%d/%Y'): the date, or ValueError
strptime(tok) ==
    IF /\ tok.kind = "date"
       /\ tok.m \in 1..12
       /\ tok.d \in 1..DaysInMonth(tok.m, tok.y)
       /\ tok.y \in 1..9999
    THEN [ok |-> TRUE, y |-> tok.y, m |-> tok.m, d |-> tok.d]
    ELSE [ok |-> FALSE, y |-> 0, m |-> 0, d |-> 0]

DigitChar(n) == <<"0","1","2","3","4","5","6","7","8","9">>[n + 1]

\* report_date.strftime('%Y'), for the years from 1000 on
strftime_Y(date) ==
    <<DigitChar(date.y \div 1000), DigitChar((date.y \div 100) % 10),
      DigitChar((date.y \div 10) % 10), DigitChar(date.y % 10)>>

CutoffYear == 2019
CutoffMonth == 1
CutoffDay == 1

\* report_date > datetime(year=2019, month=1, day=1)
IsAfterCutoff(date) ==
    \/ date.y > CutoffYear
    \/ date.y = CutoffYear /\ date.m > CutoffMonth
    \/ date.y = CutoffYear /\ date.m = CutoffMonth /\ date.d > CutoffDay

StartsWith(t, p) ==
    /\ Len(t) >= Len(p)
    /\ \A k \in DOMAIN p : t[k] = p[k]

\* whether p occurs in t at position i
OccursAt(t, p, i) ==
    /\ i >= 1
    /\ i + Len(p) - 1 <= Len(t)
    /\ \A k \in DOMAIN p : t[i + k - 1] = p[k]

\* p in t
Contains(t, p) == \E i \in 1..(Len(t) - Len(p) + 1) : OccursAt(t, p, i)

\* the first element of seq that Test accepts, as an optional value
FirstWhere(seq, Test(_)) ==
    LET hits == {k \in DOMAIN seq : Test(seq[k])}
    IN IF hits = {} THEN Absent
       ELSE Some(seq[CHOOSE k \in hits : \A j \in hits : k <= j])

SummaryPhrase ==
    <<"S","u","m","m","a","r","y"," ","o","f"," ","S","i","g","n","i","f","i",
      "c","a","n","t"," ","A","c","c","o","u","n","t","i","n","g"," ","P","o",
      "l","i","c","i","e","s">>

AsHtml(found) == IF found = Absent THEN Absent ELSE Some(Html(tostring(found[1]), found[1]))

\* AppleMDNA._extract_mdna_after_2019
extract_mdna_after_2019(doc) ==
    LET Hit(td) == td.text # <<>> /\ StartsWith(strip(td.text), SummaryPhrase)
    IN AsHtml(FirstWhere(doc.cells, Hit))

\* AppleMDNA._extract_mdna_before_2019
extract_mdna_before_2019(doc) ==
    LET Hit(div) == div.text # <<>>
    IN AsHtml(FirstWhere(doc.summary, Hit))

\* s[-1]
Last(s) == s[Len(s)]

\* AppleMDNA.extract_mdna from "if report_date > datetime(...)" on
AppleBranch(doc, report_date) ==
    IF IsAfterCutoff(report_date)
    THEN ReturnTuple(extract_mdna_after_2019(doc), Some(strftime_Y(report_date)),
                     <<"_extract_mdna_after_2019">>)
    ELSE ReturnTuple(extract_mdna_before_2019(doc), Some(strftime_Y(report_date)),
                     <<"_extract_mdna_before_2019">>)

\* AppleMDNA.extract_mdna (FacebookMDNA inherits it unchanged): None by a
\* bare return without a title, IndexError from [-1] on a title of white
\* space, ValueError from strptime, else one of the two strategies
AppleMDNA_extract_mdna(doc) ==
    IF doc.title.kind # "text" THEN ReturnNone(<<>>)
    ELSE IF doc.title.tokens = <<>> THEN Raise("IndexError", <<>>)
    ELSE LET report_date == strptime(Last(doc.title.tokens))
         IN IF ~report_date.ok THEN Raise("ValueError", <<>>)
            ELSE AppleBranch(doc, report_date)

NetflixPhrase1 ==
    <<"O","r","g","a","n","i","z","a","t","i","o","n"," ","A","n","d"," ","S",
      "u","m","m","a","r","y"," ","O","f"," ","S","i","g","n","i","f","i","c",
      "a","n","t"," ","A","c","c","o","u","n","t","i","n","g"," ","P","o","l",
      "i","c","i","e","s"," ","(","P","o","l","i","c","y",")">>

NetflixPhrase2 ==
    <<"O","r","g","a","n","i","z","a","t","i","o","n"," ","a","n","d"," ","S",
      "u","m","m","a","r","y"," ","o","f"," ","S","i","g","n","i","f","i","c",
      "a","n","t"," ","A","c","c","o","u","n","t","i","n","g"," ","P","o","l",
      "i","c","i","e","s"," ","(","P","o","l","i","c","y",")">>

AmazonPhrase1 ==
    <<"D","e","s","c","r","i","p","t","i","o","n"," ","o","f"," ","B","u","s",
      "i","n","e","s","s",","," ","A","c","c","o","u","n","t","i","n","g"," ",
      "P","o","l","i","c","i","e","s",","," ","a","n","d"," ","S","u","p","p",
      "l","e","m","e","n","t","a","l"," ","D","i","s","c","l","o","s","u","r",
      "e","s"," ","(","P","o","l","i","c","i","e","s",")">>

AmazonPhrase2 ==
    <<"D","E","S","C","R","I","P","T","I","O","N"," ","O","F"," ","B","U","S",
      "I","N","E","S","S"," ","A","N","D"," ","A","C","C","O","U","N","T","I",
      "N","G"," ","P","O","L","I","C","I","E","S"," ","(","P","o","l","i","c",
      "i","e","s",")">>

AmazonPhrase3 ==
    <<"D","e","s","c","r","i","p","t","i","o","n"," ","o","f"," ","B","u","s",
      "i","n","e","s","s"," ","a","n","d"," ","A","c","c","o","u","n","t","i",
      "n","g"," ","P","o","l","i","c","i","e","s"," ","(","P","o","l","i","c",
      "i","e","s",")">>

\* The scan of NetflixMDNA and AmazonMDNA: the first report container whose
\* markup holds one of the phrases
ScanContainers(doc, phrases) ==
    LET Hit(div) == \E p \in phrases : Contains(tostring(div), p)
    IN AsHtml(FirstWhere(doc.containers, Hit))

\* a scan that raises when no container holds a phrase
ContainerExtractRaising(doc, phrases) ==
    IF doc.title.kind # "text" THEN ReturnNone(<<>>)
    ELSE IF doc.title.tokens = <<>> THEN Raise("IndexError", <<>>)
    ELSE LET report_date == strptime(Last(doc.title.tokens))
         IN IF ~report_date.ok THEN Raise("ValueError", <<>>)
            ELSE IF ScanContainers(doc, phrases) = Absent THEN Raise("LookupError", <<>>)
            ELSE ReturnTuple(ScanContainers(doc, phrases),
                             Some(strftime_Y(report_date)), <<>>)

\* The body NetflixMDNA.extract_mdna and AmazonMDNA.extract_mdna share
ContainerExtract(doc, phrases) ==
    IF doc.title.kind # "text" THEN ReturnNone(<<>>)
    ELSE IF doc.title.tokens = <<>> THEN Raise("IndexError", <<>>)
    ELSE LET report_date == strptime(Last(doc.title.tokens))
         IN IF ~report_date.ok THEN Raise("ValueError", <<>>)
            ELSE ReturnTuple(ScanContainers(doc, phrases),
                             Some(strftime_Y(report_date)), <<>>)

NetflixMDNA_extract_mdna(doc) == ContainerExtract(doc, {NetflixPhrase1, NetflixPhrase2})

AmazonMDNA_extract_mdna(doc) ==
    ContainerExtract(doc, {AmazonPhrase1, AmazonPhrase2, AmazonPhrase3})

\* The phrase with the ASCII apostrophe
MdnaPhraseAscii ==
    <<"M","A","N","A","G","E","M","E","N","T","'","S"," ","D","I","S","C","U",
      "S","S","I","O","N"," ","A","N","D"," ","A","N","A","L","Y","S","I","S",
      " ","O","F"," ","F","I","N","A","N","C","I","A","L"," ","C","O","N","D",
      "I","T","I","O","N"," ","A","N","D"," ","R","E","S","U","L","T","S"," ",
      "O","F"," ","O","P","E","R","A","T","I","O","N","S">>

\* The literal part of GoogleMDNA.mdan_cmp: the apostrophe is U+2019
MdnaPhrase ==
    <<"M","A","N","A","G","E","M","E","N","T",RSQ,"S"," ","D","I","S","C","U",
      "S","S","I","O","N"," ","A","N","D"," ","A","N","A","L","Y","S","I","S",
      " ","O","F"," ","F","I","N","A","N","C","I","A","L"," ","C","O","N","D",
      "I","T","I","O","N"," ","A","N","D"," ","R","E","S","U","L","T","S"," ",
      "O","F"," ","O","P","E","R","A","T","I","O","N","S">>

HrOpen == <<"<", "h", "r">>

Min(S) == CHOOSE x \in S : \A y \in S : x <= y

\* .*?<hr from position i on (re.DOTALL): the position of the first <hr at
\* or after i, 0 when there is none
LazyUntil(t, p, i) ==
    LET at == {h \in i..Len(t) : OccursAt(t, p, h)}
    IN IF at = {} THEN 0 ELSE Min(at)

\* mdan_cmp.search(html_source): the span <<start, end>> of the leftmost
\* match, <<>> when nothing matches.  A match starts where the phrase
\* occurs and an <hr follows it; it ends with the nearest such <hr.
mdan_cmp_search(t) ==
    LET starts == {i \in DOMAIN t :
                      /\ OccursAt(t, MdnaPhrase, i)
                      /\ LazyUntil(t, HrOpen, i + Len(MdnaPhrase)) # 0}
    IN IF starts = {} THEN <<>>
       ELSE <<Min(starts),
              LazyUntil(t, HrOpen, Min(starts) + Len(MdnaPhrase)) + Len(HrOpen) - 1>>

\* GoogleMDNA.extract_mdna
GoogleMDNA_extract_mdna(doc) ==
    LET result == mdan_cmp_search(doc.raw)
    IN IF result = <<>> THEN ReturnTuple(Absent, Absent, <<>>)
       ELSE ReturnTuple(Some(Html(SubSeq(doc.raw, result[1], result[2]), doc.dom)),
                        Absent, <<>>)

\* ----------------------------------------------------------------- main

\* A file of an issuer directory: name = file.split(), the tokens of its
\* name; decode = "cp1252" when its bytes decode as windows-1252, "utf-8"
\* when they decode only as utf-8, "neither" when they decode as neither;
\* doc = what the extractors see of its text.
File(name, decode, doc) == [name |-> name, decode |-> decode, doc |-> doc]

title_list == <<"company", "year", "MD&A", "fog">>

\* sheet.cell(r, c, value)
SetCell(sh, r, c, value) == (<<r, c>> :> value) @@ sh

\* The driver after one pass of a loop body
Continue(sh, r) == [pc |-> "loop", sheet |-> sh, row |-> r, ret |-> None, step |-> 1]

\* ... and after an exception nothing catches
Uncaught(exc, sh, r) == [pc |-> "crashed", sheet |-> sh, row |-> r, ret |-> exc, step |-> 0]

\* One pass of a loop body of main: the file is read (readable: no decoding
\* error), get_mdna_text has given result, a document without text is passed
\* over, the cells of the row are filled and row moves on.  main catches no
\* exception of these steps.
LoopBody(sh, r, company, year, readable, result) ==
    IF ~readable THEN Uncaught("UnicodeDecodeError", sh, r)
    ELSE IF result.raise # "" THEN Uncaught(result.raise, sh, r)
    ELSE IF result.first = Absent THEN Continue(sh, r)
    ELSE LET mdna_text == result.first[1]
             filled == SetCell(SetCell(SetCell(sh, r, 1, company), r, 2, year),
                               r, 3, mdna_text)
             fog_score == calculate_fog(mdna_text)
         IN IF fog_score = ZeroDivisionError
            THEN Uncaught("ZeroDivisionError", filled, r)
            ELSE Continue(SetCell(filled, r, 4, fog_score), r + 1)

\* the year as written to column 2 (None when there is none)
YearCell(year) == IF year = Absent THEN <<>> ELSE year[1]

\* The loop bodies over ./apple, ./netflix, ./facebook and ./amazon
TitleLoopBody(sh, r, company, file, extracted) ==
    LET result == get_mdna_text(extracted)
    IN LoopBody(sh, r, company, YearCell(result.year), file.decode = "cp1252", result)

\* The loop body over ./google: the year is the first token of the file
\* name, and a file that does not decode as windows-1252 is read as utf-8
GoogleLoopBody(sh, r, file) ==
    IF file.name = <<>> THEN Uncaught("ValueError", sh, r)
    ELSE LoopBody(sh, r, "GOOGLE INC", Head(file.name), file.decode # "neither",
                  get_mdna_text(GoogleMDNA_extract_mdna(file.doc)))

\* ------------------------------------------------- inputs of the scorer

SyllableChars == {"a", "e", "b", "A", "E", "B"}

Banana == <<"b","a","n","a","n","a">>

Words == SeqUpTo(SyllableChars, MaxWordLen) \cup {Banana, ToUpper(Banana)}

TextChars == {"A", "a", "5", ".", "!", " "}

MrSmithText ==
    <<"T","h","i","s"," ","i","s"," ","M","r","."," ","S","m","i","t","h",
      "'","s"," ","r","e","p","o","r","t","."," ","I","t"," ","s","c","o",
      "r","e","s"," ","3",".","5"," ","p","o","i","n","t","s",".">>

\* 2 sentences, 20 words, 4 of them ("Banana", "banana") complex
TwentyWordText ==
    <<"B","a","n","a","n","a"," ","a"," ","a"," ","a"," ","a"," ","a"," ",
      "a"," ","a"," ","a"," ","b","a","n","a","n","a","."," ","B","a","n",
      "a","n","a"," ","a"," ","a"," ","a"," ","a"," ","a"," ","a"," ","a",
      " ","a"," ","b","a","n","a","n","a",".">>

Texts == SeqUpTo(TextChars, MaxTextLen) \cup {MrSmithText, TwentyWordText}

Idle ==
    /\ listing = <<>>
    /\ dir = 0
    /\ idx = 0
    /\ row = 0
    /\ sheet = <<>>
    /\ saved = FALSE

\* ------------------------------------------- inputs of get_text_from_html

TagTd == <<"t","d">>

TagTr == <<"t","r">>

TagB == <<"b">>

TagP == <<"p">>

TagA == <<"a">>

TagDiv == <<"d","i","v">>

TagTable == <<"t","a","b","l","e">>

LeafElements ==
    {Element(tag, text, <<>>, tail) :
        tag \in {TagTd, TagB}, text \in {<<>>, <<"A">>, <<"B">>}, tail \in {<<>>, <<"T">>}}

InnerElements ==
    {Element(tag, <<>>, kids, <<>>) :
        tag \in {TagTr, TagB}, kids \in SeqUpTo(LeafElements, MaxChildren)}

Trees ==
    {Element(tag, <<>>, kids, <<>>) :
        tag \in {TagTable, TagDiv}, kids \in {<<>>} \cup {<<e>> : e \in InnerElements}}

\* <table><tr><td>A</td><td>B</td></tr></table>
TableExample ==
    Element(TagTable, <<>>,
            <<Element(TagTr, <<>>,
                      <<Element(TagTd, <<"A">>, <<>>, <<>>),
                        Element(TagTd, <<"B">>, <<>>, <<>>)>>, <<>>)>>, <<>>)

\* ---------------------------------------------- inputs of the extractors

Doc(title, cells, summary, containers, raw, dom) ==
    [title |-> title, cells |-> cells, summary |-> summary,
     containers |-> containers, raw |-> raw, dom |-> dom]

NoDom == Element(<<>>, <<>>, <<>>, <<>>)

\* 12/31/2018, 01/01/2019, 10/15/2020, 02/30/2019 and a token that is no date
LastTokens ==
    {DateToken(12, 31, 2018), DateToken(1, 1, 2019), DateToken(10, 15, 2020),
     DateToken(2, 30, 2019), WordToken}

Titles ==
    {NoTitle, NoTitleText, TitleText(<<>>)} \cup
    {TitleText(Append(pre, t)) :
        pre \in SeqUpTo({WordToken, DateToken(10, 15, 2020)}, MaxTitleTokens - 1),
        t \in LastTokens}

\* "\n Summary of Significant Accounting Policies. We say so."
TdSummary ==
    Element(TagTd, <<"\n", " ">> \o SummaryPhrase
                   \o <<".", " ", "W", "e", " ", "s", "a", "y", " ", "s", "o", ".">>,
            <<>>, <<>>)

\* the phrase alone: words, and no sentence
TdSummaryBare == Element(TagTd, SummaryPhrase, <<>>, <<>>)

TdOther == Element(TagTd, <<"O","t","h","e","r",".">>, <<>>, <<>>)

TdNoText == Element(TagTd, <<>>, <<Element(TagB, SummaryPhrase, <<>>, <<>>)>>, <<>>)

CellKinds == {TdSummary, TdOther, TdNoText}

\* <div>Basis. <p>We did it.</p></div>
DivBasis ==
    Element(TagDiv, <<"B","a","s","i","s","."," ">>,
            <<Element(TagP, <<"W","e"," ","d","i","d"," ","i","t",".">>, <<>>, <<>>)>>,
            <<>>)

DivNoText == Element(TagDiv, <<>>, <<Element(TagP, <<"X",".">>, <<>>, <<>>)>>, <<>>)

SummaryKinds == {DivBasis, DivNoText}

\* <div><a>phrase</a>It is so.</div>
ContainerWith(phrase) ==
    Element(TagDiv, <<>>,
            <<Element(TagA, phrase, <<>>, <<"I","t"," ","i","s"," ","s","o",".">>)>>,
            <<>>)

ContainerOther == Element(TagDiv, <<"O","t","h","e","r",".">>, <<>>, <<>>)

ContainerKinds ==
    {ContainerWith(NetflixPhrase1), ContainerWith(NetflixPhrase2),
     ContainerWith(AmazonPhrase1), ContainerWith(AmazonPhrase2),
     ContainerWith(AmazonPhrase3), ContainerOther}

AppleDocs ==
    {Doc(t, c, s, <<>>, <<>>, NoDom) :
        t \in Titles, c \in SeqUpTo(CellKinds, MaxElements),
        s \in SeqUpTo(SummaryKinds, MaxElements)}

ContainerDocs ==
    {Doc(t, <<>>, <<>>, c, <<>>, NoDom) :
        t \in Titles, c \in SeqUpTo(ContainerKinds, MaxElements)}

RawSegments ==
    {MdnaPhrase, MdnaPhraseAscii, <<"<","h","r",">">>, <<"x",".">>, <<"<","h">>}

RawTexts == {Concat(ss) : ss \in SeqUpTo(RawSegments, MaxSegments)}

\* what the matched span parses to: <div><p>the phrase. It is so.</p></div>
GoogleDom ==
    Element(TagDiv, <<>>,
            <<Element(TagP, MdnaPhrase \o <<"."," ","I","t"," ","i","s"," ","s","o",".">>,
                      <<>>, <<>>)>>, <<>>)

\* the same without any sentence: <div><p>the phrase</p></div>
GoogleDomBare == Element(TagDiv, <<>>, <<Element(TagP, MdnaPhrase, <<>>, <<>>)>>, <<>>)

GoogleDocs ==
    {Doc(NoTitle, <<>>, <<>>, <<>>, raw, dom) :
        raw \in RawTexts, dom \in {GoogleDom, GoogleDomBare}}

\* ------------------------------------------- count_syllables, word by word

InitSyllables ==
    /\ pc = "call"
    /\ arg \in Words
    /\ ret = None
    /\ Idle

CallCountSyllables ==
    /\ pc = "call"
    /\ pc' = "return"
    /\ ret' = count_syllables(arg)
    /\ UNCHANGED <<arg, listing, dir, idx, row, sheet, saved>>

CallIsComplexWord ==
    /\ pc = "call"
    /\ pc' = "returnComplex"
    /\ ret' = is_complex_word(arg)
    /\ UNCHANGED <<arg, listing, dir, idx, row, sheet, saved>>

NextSyllables == CallCountSyllables \/ CallIsComplexWord

SpecSyllables == InitSyllables /\ [][NextSyllables]_vars

\* ------------------------------------------------ the scorer, text by text

InitFog ==
    /\ pc = "call"
    /\ arg \in Texts
    /\ ret = None
    /\ Idle

CallIdentifySentences ==
    /\ pc = "call"
    /\ pc' = "identify_sentences"
    /\ ret' = identify_sentences(arg)
    /\ UNCHANGED <<arg, listing, dir, idx, row, sheet, saved>>

CallIdentifyWords ==
    /\ pc = "call"
    /\ pc' = "identify_words"
    /\ ret' = identify_words(arg)
    /\ UNCHANGED <<arg, listing, dir, idx, row, sheet, saved>>

CallCalculateFog ==
    /\ pc = "call"
    /\ pc' = "calculate_fog"
    /\ ret' = calculate_fog(arg)
    /\ UNCHANGED <<arg, listing, dir, idx, row, sheet, saved>>

NextFog == CallIdentifySentences \/ CallIdentifyWords \/ CallCalculateFog

SpecFog == InitFog /\ [][NextFog]_vars

\* --------------------------------------- get_text_from_html, tree by tree

InitHtml ==
    /\ pc = "call"
    /\ arg \in {Html(tostring(t), t) : t \in Trees}
    /\ ret = None
    /\ Idle

CallGetTextFromHtml ==
    /\ pc = "call"
    /\ pc' = "get_text_from_html"
    /\ ret' = [doc |-> get_text_from_html_doc(arg), text |-> get_text_from_html(arg)]
    /\ UNCHANGED <<arg, listing, dir, idx, row, sheet, saved>>

CallTextContent ==
    /\ pc = "call"
    /\ pc' = "text_content"
    /\ ret' = text_content(fromstring(arg))
    /\ UNCHANGED <<arg, listing, dir, idx, row, sheet, saved>>

NextHtml == CallGetTextFromHtml \/ CallTextContent

SpecHtml == InitHtml /\ [][NextHtml]_vars

\* ------------------------------------- get_mdna_text, filing by filing

InitExtract ==
    /\ pc = "call"
    /\ arg \in AppleDocs \cup ContainerDocs \cup GoogleDocs
    /\ ret = None
    /\ Idle

\* cls.get_mdna_text(html_complete_10k): what cls.extract_mdna did, and
\* what get_mdna_text then did
Call(cls, extracted) ==
    /\ pc = "call"
    /\ pc' = cls
    /\ ret' = [extract_mdna |-> extracted, get_mdna_text |-> get_mdna_text(extracted)]
    /\ UNCHANGED <<arg, listing, dir, idx, row, sheet, saved>>

CallAppleMDNA == Call("AppleMDNA", AppleMDNA_extract_mdna(arg))

CallNetflixMDNA == Call("NetflixMDNA", NetflixMDNA_extract_mdna(arg))

CallFacebookMDNA == Call("FacebookMDNA", AppleMDNA_extract_mdna(arg))

CallAmazonMDNA == Call("AmazonMDNA", AmazonMDNA_extract_mdna(arg))

CallGoogleMDNA == Call("GoogleMDNA", GoogleMDNA_extract_mdna(arg))

NextExtract ==
    \/ CallAppleMDNA
    \/ CallNetflixMDNA
    \/ CallFacebookMDNA
    \/ CallAmazonMDNA
    \/ CallGoogleMDNA

SpecExtract == InitExtract /\ [][NextExtract]_vars

\* ------------------------------------------------- inputs of the driver

Word2020 == TitleText(<<WordToken, DateToken(10, 15, 2020)>>)

TitleFiling(title, cells, summary, containers) ==
    File(<<>>, "cp1252", Doc(title, cells, summary, containers, <<>>, NoDom))

\* ./apple: a filing of 2020 with the section, one of 2018 with the section,
\* one without the section, one without title, one whose section has no
\* sentence, and one that does not decode as windows-1252
AppleFiles ==
    {TitleFiling(Word2020, <<TdOther, TdSummary>>, <<>>, <<>>),
     TitleFiling(TitleText(<<DateToken(12, 31, 2018)>>), <<>>, <<DivNoText, DivBasis>>, <<>>),
     TitleFiling(Word2020, <<TdOther>>, <<>>, <<>>),
     TitleFiling(NoTitle, <<TdSummary>>, <<>>, <<>>),
     TitleFiling(Word2020, <<TdSummaryBare>>, <<>>, <<>>),
     File(<<>>, "utf-8", Doc(Word2020, <<TdSummary>>, <<>>, <<>>, <<>>, NoDom))}

\* ./netflix: with the section, without it, and with a date that is none
NetflixFiles ==
    {TitleFiling(Word2020, <<>>, <<>>, <<ContainerOther, ContainerWith(NetflixPhrase2)>>),
     TitleFiling(Word2020, <<>>, <<>>, <<ContainerWith(AmazonPhrase3)>>),
     TitleFiling(TitleText(<<DateToken(2, 30, 2019)>>), <<>>, <<>>,
                 <<ContainerWith(NetflixPhrase1)>>)}

FacebookFiles ==
    {TitleFiling(TitleText(<<DateToken(1, 1, 2019)>>), <<TdSummary>>, <<DivBasis>>, <<>>),
     TitleFiling(Word2020, <<TdNoText>>, <<DivBasis>>, <<>>),
     TitleFiling(NoTitleText, <<TdSummary>>, <<>>, <<>>)}

\* ./amazon: with the section, without it, and with a title of white space
AmazonFiles ==
    {TitleFiling(Word2020, <<>>, <<>>, <<ContainerWith(AmazonPhrase2)>>),
     TitleFiling(Word2020, <<>>, <<>>, <<ContainerOther>>),
     TitleFiling(TitleText(<<>>), <<>>, <<>>, <<ContainerWith(AmazonPhrase1)>>)}

Name2019 == << <<"2","0","1","9">>, <<"1","0","-","K",".","h","t","m","l">> >>

RawWithSection == <<"x", ".">> \o MdnaPhrase \o <<"x", ".", "<", "h", "r", ">", "x">>

RawWithoutSection == MdnaPhraseAscii \o <<"<", "h", "r", ">">>

GoogleFiling(decode, raw, dom) == File(Name2019, decode, Doc(NoTitle, <<>>, <<>>, <<>>, raw, dom))

\* ./google: with the section, read as windows-1252 and as utf-8; without
\* the section; with a section without a sentence; and one that does not
\* decode at all
GoogleFiles ==
    {GoogleFiling("cp1252", RawWithSection, GoogleDom),
     GoogleFiling("utf-8", RawWithSection, GoogleDom),
     GoogleFiling("cp1252", RawWithoutSection, GoogleDom),
     GoogleFiling("cp1252", RawWithSection, GoogleDomBare),
     GoogleFiling("neither", RawWithSection, GoogleDom)}

FilesOf(d) ==
    CASE d = 1 -> AppleFiles
      [] d = 2 -> NetflixFiles
      [] d = 3 -> FacebookFiles
      [] d = 4 -> AmazonFiles
      [] d = 5 -> GoogleFiles

Directories == 1..5

\* The files of a run in the order main meets them, each with its directory
Runs ==
    {run \in SeqUpTo(UNION {{<<d, f>> : f \in FilesOf(d)} : d \in Directories}, MaxFiles) :
        \A j, k \in DOMAIN run : j < k => run[j][1] <= run[k][1]}

\* os.listdir of each directory, for a run
ListingOf(run) ==
    [d \in Directories |->
        LET InDir(x) == x[1] = d
            mine == SelectSeq(run, InDir)
        IN [k \in DOMAIN mine |-> mine[k][2]]]

\* --------------------------------------------------------------- the driver

Init ==
    /\ pc = "start"
    /\ arg = None
    /\ ret = None
    /\ listing \in {ListingOf(run) : run \in Runs}
    /\ dir = 0
    /\ idx = 0
    /\ row = 0
    /\ sheet = <<>>
    /\ saved = FALSE

\* main up to "row = 2": the workbook and its header row
Start ==
    /\ pc = "start"
    /\ pc' = "loop"
    /\ sheet' = [cell \in {<<1, i>> : i \in DOMAIN title_list} |-> title_list[cell[2]]]
    /\ row' = 2
    /\ dir' = 1
    /\ idx' = 0
    /\ UNCHANGED <<arg, ret, listing, saved>>

\* The next file of directory d is handled by a loop body that ends as after
Pass(d, after) ==
    /\ pc' = after.pc
    /\ sheet' = after.sheet
    /\ row' = after.row
    /\ ret' = after.ret
    /\ idx' = idx + after.step
    /\ UNCHANGED <<arg, listing, dir, saved>>

InLoop(d) == pc = "loop" /\ dir = d /\ idx < Len(listing[d])

ProcessApple ==
    /\ InLoop(1)
    /\ LET file == listing[1][idx + 1]
       IN Pass(1, TitleLoopBody(sheet, row, "APPLE INC", file,
                                AppleMDNA_extract_mdna(file.doc)))

ProcessNetflix ==
    /\ InLoop(2)
    /\ LET file == listing[2][idx + 1]
       IN Pass(2, TitleLoopBody(sheet, row, "NETFLIX INC", file,
                                NetflixMDNA_extract_mdna(file.doc)))

\* main calls AppleMDNA.get_mdna_text for the files of ./facebook
ProcessFacebook ==
    /\ InLoop(3)
    /\ LET file == listing[3][idx + 1]
       IN Pass(3, TitleLoopBody(sheet, row, "FACEBOOK INC", file,
                                AppleMDNA_extract_mdna(file.doc)))

ProcessAmazon ==
    /\ InLoop(4)
    /\ LET file == listing[4][idx + 1]
       IN Pass(4, TitleLoopBody(sheet, row, "AMAZON COM INC", file,
                                AmazonMDNA_extract_mdna(file.doc)))

ProcessGoogle ==
    /\ InLoop(5)
    /\ Pass(5, GoogleLoopBody(sheet, row, listing[5][idx + 1]))

\* a for loop ends and the next directory is listed
NextDirectory ==
    /\ pc = "loop"
    /\ dir < 5
    /\ idx = Len(listing[dir])
    /\ dir' = dir + 1
    /\ idx' = 0
    /\ UNCHANGED <<pc, arg, ret, listing, row, sheet, saved>>

\* profile.save('result.xlsx')
Save ==
    /\ pc = "loop"
    /\ dir = 5
    /\ idx = Len(listing[5])
    /\ pc' = "done"
    /\ saved' = TRUE
    /\ UNCHANGED <<arg, ret, listing, dir, idx, row, sheet>>

Next ==
    \/ Start
    \/ ProcessApple
    \/ ProcessNetflix
    \/ ProcessFacebook
    \/ ProcessAmazon
    \/ ProcessGoogle
    \/ NextDirectory
    \/ Save

Spec == Init /\ [][Next]_vars

\* ------------------------------------------------ claims on the scorer

\* The count the claim describes: the vowels (a, e, i, o, u, y) of the word
\* that begin a run of vowels, a final lone e left out.
VowelRunStarts(w) ==
    LET v == {"a", "e", "i", "o", "u", "y"}
        l == ToLower(w)
    IN Cardinality({i \in DOMAIN l :
           /\ l[i] \in v
           /\ (i = 1 \/ l[i-1] \notin v)
           /\ ~(i = Len(l) /\ l[i] = "e")})

\* C10: count_syllables gives a word, its upper-case form and its lower-case
\* form the same count, which is the number of vowel-run starts other than a
\* final lone e; the empty word counts 0.
C10_CaseInvariant ==
    pc = "return" =>
        /\ ret = count_syllables(ToUpper(arg))
        /\ ret = count_syllables(ToLower(arg))
        /\ ret = VowelRunStarts(arg)
        /\ (arg = <<>> => ret = 0)

\* C10 witness: a word of mixed case with two syllables has been counted
C10_Witness ==
    /\ pc = "return"
    /\ arg # ToUpper(arg)
    /\ arg # ToLower(arg)
    /\ ret = 2

\* A "." that is immediately followed by a digit
DecimalPoint(t, j) == t[j] = "." /\ j < Len(t) /\ t[j + 1] \in Digit

\* Inside a sentence (after its first character, before its last) every
\* ".", "!" or "?" is a "." followed by a digit
NoBreakInside(t, span) ==
    \A j \in (span[1] + 1)..(span[2] - 1) : t[j] \in Terminator => DecimalPoint(t, j)

\* C6 as stated: the example text has exactly two sentences, no sentence ends
\* at a "." that a digit follows, and every other ".", "!" or "?" reached
\* inside a sentence ends it.
C6_TwoSentences ==
    pc = "identify_sentences" =>
        LET spans == SentenceSpans(arg, 1)
        IN /\ (arg = MrSmithText => Len(ret) = 2)
           /\ \A k \in DOMAIN spans :
                  /\ ~DecimalPoint(arg, spans[k][2])
                  /\ NoBreakInside(arg, spans[k])

MrSmithSentences ==
    << <<"T","h","i","s"," ","i","s"," ","M","r",".">>,
       <<"S","m","i","t","h","'","s"," ","r","e","p","o","r","t",".">>,
       <<"I","t"," ","s","c","o","r","e","s"," ","3",".","5"," ","p","o","i",
         "n","t","s",".">> >>

\* C6 amended: the example text has exactly three sentences ("This is Mr.",
\* "Smith's report.", "It scores 3.5 points."); each sentence returned begins
\* with an upper-case letter at a word boundary and ends with ".", "!" or "?";
\* every ".", "!" or "?" inside it is a "." followed by a digit; and a sentence
\* ends at a "." followed by a digit only when no ".", "!" or "?" occurs
\* later in the text.
C6_ThreeSentences ==
    pc = "identify_sentences" =>
        LET spans == SentenceSpans(arg, 1)
        IN /\ (arg = MrSmithText => ret = MrSmithSentences)
           /\ Len(ret) = Len(spans)
           /\ \A k \in DOMAIN spans :
                  LET s == spans[k][1]
                      e == spans[k][2]
                  IN /\ ret[k] = SubSeq(arg, s, e)
                     /\ arg[s] \in Upper
                     /\ IsWordBoundary(arg, s)
                     /\ arg[e] \in Terminator
                     /\ NoBreakInside(arg, spans[k])
                     /\ (DecimalPoint(arg, e) =>
                            \A j \in (e + 1)..Len(arg) : arg[j] \notin Terminator)
                     /\ (k > 1 => spans[k-1][2] < s)

\* C6 witness: the example text has been split into its three sentences
C6_Witness ==
    /\ pc = "identify_sentences"
    /\ arg = MrSmithText
    /\ Len(ret) = 3

\* C8: calculate_fog raises ZeroDivisionError exactly when the text has no
\* sentence or no word, and otherwise returns 0.4*(|W|/|S| + 100*|C|/|W|),
\* which is 2*(|W|*|W| + 100*|C|*|S|) / (5*|S|*|W|); with 2 sentences, 20
\* words and 4 complex words that is 12.
C8_FogFormula ==
    pc = "calculate_fog" =>
        LET S == count_sentences(arg)
            W == count_words(arg)
            words == identify_words(arg)
            C == Cardinality({k \in DOMAIN words : count_syllables(words[k]) >= 3})
        IN /\ (ret = ZeroDivisionError) <=> (S = 0 \/ W = 0)
           /\ (S > 0 /\ W > 0) =>
                  /\ ret[2] > 0
                  /\ ret[1] * (5 * S * W) = ret[2] * (2 * (W * W + 100 * C * S))
           /\ (S = 2 /\ W = 20 /\ C = 4) => ret = <<12, 1>>

\* C8 witness: the text of 2 sentences, 20 words and 4 complex words scored 12
C8_Witness ==
    /\ pc = "calculate_fog"
    /\ arg = TwentyWordText
    /\ count_sentences(arg) = 2
    /\ count_words(arg) = 20
    /\ ret = <<12, 1>>

\* ------------------------------------------ claims on get_text_from_html

RECURSIVE AllElements(_)
\* an element and everything below it
AllElements(e) == {e} \cup UNION {AllElements(e.children[k]) : k \in DOMAIN e.children}

\* C5 as stated: after get_text_from_html every element of the tag set, at
\* any depth of the parsed tree, has a newline at the end of its leading
\* text, and the text of <table><tr><td>A</td><td>B</td></tr></table> is
\* not "AB".
C5_NewlineAtAnyDepth ==
    pc = "get_text_from_html" =>
        /\ \A e \in AllElements(ret.doc) :
               e.tag \in NewlineTags => (e.text # <<>> /\ Last(e.text) = "\n")
        /\ (fromstring(arg) = TableExample => ret.text # <<"A", "B">>)

\* ------------------------------------------------ claims on the extractors

TitleBased == {"AppleMDNA", "NetflixMDNA", "FacebookMDNA", "AmazonMDNA"}

\* the title has text and that text has a last token
HasLastToken(doc) == doc.title.kind = "text" /\ doc.title.tokens # <<>>

\* the title's last token is a date of the calendar written mm/dd/yyyy
HasValidDate(doc) == HasLastToken(doc) /\ strptime(Last(doc.title.tokens)).ok

\* C1 as stated: for a title-based extractor, a document without title (or
\* without title text), or whose last title token is no date, makes
\* extract_mdna and get_mdna_text raise nothing and get_mdna_text return
\* (absent, absent).
C1_NoTitleYieldsAbsent ==
    (/\ pc \in TitleBased
     /\ \/ arg.title.kind \in {"absent", "notext"}
        \/ HasLastToken(arg) /\ ~HasValidDate(arg))
    => /\ ret.extract_mdna.raise = ""
       /\ ret.get_mdna_text.raise = ""
       /\ ret.get_mdna_text.value = "tuple"
       /\ ret.get_mdna_text.first = Absent
       /\ ret.get_mdna_text.year = Absent

\* a date as one number, yyyymmdd
DateNumber(tok) == tok.y * 10000 + tok.m * 100 + tok.d

\* C4 as stated: in Issuer A's extract_mdna a filing dated on or after
\* 2019-01-01 goes to _extract_mdna_after_2019 and an earlier one to
\* _extract_mdna_before_2019.
C4_CutoffInclusive ==
    (pc = "AppleMDNA" /\ HasValidDate(arg)) =>
        LET d == DateNumber(Last(arg.title.tokens))
        IN ret.extract_mdna.calls =
               IF d >= 20190101 THEN <<"_extract_mdna_after_2019">>
               ELSE <<"_extract_mdna_before_2019">>

\* The span the claim describes: from the first occurrence of phrase
\* through the first "<hr" after it; <<>> when there is no such span
FirstSpan(t, phrase) ==
    LET at == {i \in DOMAIN t : OccursAt(t, phrase, i)}
        p == Min(at)
        hr == {h \in DOMAIN t : h >= p + Len(phrase) /\ OccursAt(t, <<"<","h","r">>, h)}
    IN IF at = {} THEN <<>>
       ELSE IF hr = {} THEN <<>>
       ELSE <<p, Min(hr) + 2>>

\* What the claim says of Issuer E for the phrase given
SpanReturned(phrase) ==
    LET span == FirstSpan(arg.raw, phrase)
        got == ret.extract_mdna
    IN /\ got.raise = ""
       /\ got.value = "tuple"
       /\ got.year = Absent
       /\ IF span = <<>> THEN got.first = Absent
          ELSE /\ got.first # Absent
               /\ got.first[1].markup = SubSeq(arg.raw, span[1], span[2])

\* MANAGEMENT'S DISCUSSION ... with the apostrophe given
PhraseWith(apostrophe) == [MdnaPhraseAscii EXCEPT ![11] = apostrophe]

\* C7 as stated: Issuer E's extract_mdna returns the span from the first
\* occurrence of the phrase, written with the ASCII apostrophe, through the
\* first "<hr" after it, with no year; (absent, absent) without such a span.
C7_AsciiApostrophe == pc = "GoogleMDNA" => SpanReturned(PhraseWith("'"))

\* C7 amended: the same of the phrase written with the right single
\* quotation mark U+2019 in place of the ASCII apostrophe.
C7_RightQuoteApostrophe == pc = "GoogleMDNA" => SpanReturned(PhraseWith(RSQ))

\* C7 witness: a span that is a proper part of the document was returned
C7_Witness ==
    /\ pc = "GoogleMDNA"
    /\ ret.extract_mdna.first # Absent
    /\ Len(ret.extract_mdna.first[1].markup) < Len(arg.raw)
    /\ ret.extract_mdna.year = Absent

\* the document matches none of the section patterns of the issuer
MatchesNoPattern(cls, doc) ==
    CASE cls \in {"AppleMDNA", "FacebookMDNA"} ->
           /\ \A k \in DOMAIN doc.cells :
                  LET text == doc.cells[k].text
                  IN text = <<>> \/ ~StartsWith(strip(text), SummaryPhrase)
           /\ \A k \in DOMAIN doc.summary : doc.summary[k].text = <<>>
      [] cls = "NetflixMDNA" ->
           \A k \in DOMAIN doc.containers :
               /\ ~Contains(tostring(doc.containers[k]), NetflixPhrase1)
               /\ ~Contains(tostring(doc.containers[k]), NetflixPhrase2)
      [] cls = "AmazonMDNA" ->
           \A k \in DOMAIN doc.containers :
               /\ ~Contains(tostring(doc.containers[k]), AmazonPhrase1)
               /\ ~Contains(tostring(doc.containers[k]), AmazonPhrase2)
               /\ ~Contains(tostring(doc.containers[k]), AmazonPhrase3)
      [] OTHER -> FirstSpan(doc.raw, PhraseWith(RSQ)) = <<>>

\* the year of the title's date as four digits
TitleYear(doc) ==
    LET y == Last(doc.title.tokens).y
    IN <<DigitChar(y \div 1000), DigitChar((y \div 100) % 10),
         DigitChar((y \div 10) % 10), DigitChar(y % 10)>>

\* C9: a document with a valid title date that matches none of its issuer's
\* patterns makes extract_mdna return (absent, year of the title date) for
\* Issuers A to D, and one that matches nothing makes Issuer E return
\* (absent, absent); nothing is raised, and get_mdna_text returns absent text
\* with the same year without calling get_text_from_html.
C9_NoPatternNoRaise ==
    (/\ pc \in TitleBased \cup {"GoogleMDNA"}
     /\ pc \in TitleBased => HasValidDate(arg)
     /\ MatchesNoPattern(pc, arg))
    => LET year == IF pc = "GoogleMDNA" THEN Absent ELSE Some(TitleYear(arg))
       IN /\ ret.extract_mdna.raise = ""
          /\ ret.extract_mdna.value = "tuple"
          /\ ret.extract_mdna.first = Absent
          /\ ret.extract_mdna.year = year
          /\ ret.get_mdna_text.raise = ""
          /\ ret.get_mdna_text.value = "tuple"
          /\ ret.get_mdna_text.first = Absent
          /\ ret.get_mdna_text.year = year
          /\ \A k \in DOMAIN ret.get_mdna_text.calls :
                 ret.get_mdna_text.calls[k] # "get_text_from_html"

\* C9 witness: Issuer B scanned report containers, none held a phrase, and
\* (absent, "2020") came back
C9_Witness ==
    /\ pc = "NetflixMDNA"
    /\ HasValidDate(arg)
    /\ arg.containers # <<>>
    /\ MatchesNoPattern(pc, arg)
    /\ ret.get_mdna_text.first = Absent
    /\ ret.get_mdna_text.year = Some(<<"2","0","2","0">>)

\* ---------------------------------------------------- claims on the driver

\* C2 as stated: a failure on one document stays with that document, so the
\* driver stops only after it has handled every file of every directory and
\* saved the table.
C2_FailureIsolated ==
    pc \in {"done", "crashed"} =>
        /\ saved
        /\ dir = 5
        /\ idx = Len(listing[5])

CompanyOf(d) ==
    <<"APPLE INC", "NETFLIX INC", "FACEBOOK INC", "AMAZON COM INC", "GOOGLE INC">>[d]

\* what get_mdna_text gives for a file of directory d
TextOf(d, file) ==
    get_mdna_text(CASE d \in {1, 3} -> AppleMDNA_extract_mdna(file.doc)
                    [] d = 2 -> NetflixMDNA_extract_mdna(file.doc)
                    [] d = 4 -> AmazonMDNA_extract_mdna(file.doc)
                    [] d = 5 -> GoogleMDNA_extract_mdna(file.doc))

\* the row of a file: company, year, MD&A, fog
RowOf(d, file) ==
    LET got == TextOf(d, file)
    IN <<CompanyOf(d),
         IF d = 5 THEN Head(file.name) ELSE got.year[1],
         got.first[1],
         calculate_fog(got.first[1])>>

\* The files handled so far, in the order of processing, each with its directory
Handled ==
    LET upTo(d) == IF d < dir THEN Len(listing[d]) ELSE IF d = dir THEN idx ELSE 0
    IN Concat([d \in Directories |-> [k \in 1..upTo(d) |-> <<d, listing[d][k]>>]])

\* every file of the listing, in the order of processing, with its directory
AllFiles == Concat([d \in Directories |-> [k \in DOMAIN listing[d] |-> <<d, listing[d][k]>>]])

\* the rows of those of files whose extraction gives text
RowsOf(files) ==
    LET GaveText(x) == TextOf(x[1], x[2]).first # Absent
        with == SelectSeq(files, GaveText)
    IN [k \in DOMAIN with |-> RowOf(with[k][1], with[k][2])]

\* C3 as stated: once the driver has stopped, the sheet holds the header row
\* and below it, from row 2 on and in the order of processing, exactly one
\* complete row (company, year, MD&A, fog) for each document whose extraction
\* gave text, and no other cell.
C3_OneRowPerDocument ==
    pc \in {"done", "crashed"} =>
        LET rows == RowsOf(AllFiles)
        IN /\ DOMAIN sheet = {<<1, c>> : c \in 1..4}
                                 \cup {<<r + 1, c>> : r \in DOMAIN rows, c \in 1..4}
           /\ \A r \in DOMAIN rows : \A c \in 1..4 : sheet[<<r + 1, c>>] = rows[r][c]

\* What main keeps of it, up to the first exception: at every point of a run
\* the sheet holds the header row and below it, from row 2 on without gap and
\* in the order of processing, one complete row for each document handled so
\* far whose extraction gave text; row is the next free row; no other cell is
\* written, but for the first three cells of the row of a document that gave
\* text and whose score then raised.  The table is saved only when nothing
\* has raised.
RowsInOrderUntilRaise ==
    pc \in {"loop", "done", "crashed"} =>
        LET rows == RowsOf(Handled)
            header == {<<1, c>> : c \in 1..4}
            body == {<<r + 1, c>> : r \in DOMAIN rows, c \in 1..4}
            partial == {cell \in DOMAIN sheet : cell \notin header \cup body}
        IN /\ row = 2 + Len(rows)
           /\ header \cup body \subseteq DOMAIN sheet
           /\ \A c \in 1..4 : sheet[<<1, c>>] = title_list[c]
           /\ \A r \in DOMAIN rows : \A c \in 1..4 : sheet[<<r + 1, c>>] = rows[r][c]
           /\ (pc = "done" => (partial = {} /\ saved /\ Handled = AllFiles))
           /\ (partial # {} =>
                  /\ pc = "crashed"
                  /\ ret = "ZeroDivisionError"
                  /\ partial = {<<row, 1>>, <<row, 2>>, <<row, 3>>}
                  /\ TextOf(dir, listing[dir][idx + 1]).first = Some(sheet[<<row, 3>>]))

=============================================================================
